---- MODULE Spec2Model ----
(***************************************************************************)
(* Model of the flow evaluation engine of decision-tree                    *)
(* (src/src/types/index.ts): evaluateRule, evaluateEdgeRules, the          *)
(* breadth-first reachability propagation of evaluateFlow and              *)
(* discoverConditions, and of the ancestor trace of useFlowGraph           *)
(* (src/unnamed/part_000), its graph operations, importFromJson            *)
(* (src/src/utils/exportImport.ts) and the value handling of               *)
(* SimulationPanel (src/src/components/SimulationPanel.tsx).               *)
(*                                                                         *)
(* The specifications share the variables:                                 *)
(*   Spec          one call of evaluateFlow, one step per loop iteration   *)
(*   SpecRule      one call of evaluateRule                                *)
(*   SpecEdgeRules one call of evaluateEdgeRules                           *)
(*   SpecDiscover  one call of discoverConditions                          *)
(*   SpecTrace     one computation of traceHighlight, stepwise             *)
(*   SpecCalls     any one of the five calls                               *)
(*   SpecHost      the graph operations of useFlowGraph and file import    *)
(*   SpecImport    one import (importFromJson) or one clear                *)
(*   SpecSim       rule edits and context updates of a running simulation  *)
(*   SpecPanel     discoverConditions, then one choice in SimulationPanel  *)
(***************************************************************************)
EXTENDS Integers, Sequences, FiniteSets, TLC

VARIABLES
  nodes,          \* evaluateFlow argument: sequence of nodes [id]
  edges,          \* evaluateFlow argument: sequence of edges [id, source, target, data]
  state,          \* SimulationState: own properties of the context object
  pc,             \* position in the call being modelled
  reachableNodes, \* evaluateFlow local: Set<string>
  validEdges,     \* evaluateFlow local: Map<string, boolean>
  queue,          \* evaluateFlow local: BFS queue
  visited,        \* evaluateFlow local: Set<string>
  nodeId,         \* evaluateFlow local: the node being expanded
  nodeEdges,      \* evaluateFlow local: the edges of nodeId still to evaluate
  dequeues,       \* history: number of queue.shift() calls
  expansions,     \* history: node ids expanded, in order
  evaluations,    \* history: edge ids whose rules were evaluated, in order
  rule,           \* evaluateRule argument
  edge,           \* evaluateEdgeRules argument
  result,         \* value returned by evaluateRule / evaluateEdgeRules / discoverConditions
  isSimulating,   \* useFlowGraph state: simulation active
  isTraceMode,    \* useFlowGraph state: trace mode active
  hoveredNodeId,  \* useFlowGraph state: the focus node of the trace, or Null
  highlightedNodes, \* traceHighlight local: Set<string>
  highlightedEdges, \* traceHighlight local: Set<string>
  traceQueue,     \* traceHighlight local: BFS queue
  incoming,       \* traceHighlight local: the incoming edges still to visit
  enqueues,       \* history: node ids put on traceQueue, in order
  selectedNodeId, \* useFlowGraph state: the selected node, or Null
  selectedEdgeId, \* useFlowGraph state: the selected edge, or Null
  file,           \* the content of the file handed to importFromJson
  lastOp          \* history: the host operation that produced the state

traceVars == <<isSimulating, isTraceMode, hoveredNodeId, highlightedNodes,
               highlightedEdges, traceQueue, incoming, enqueues>>

hostVars == <<selectedNodeId, selectedEdgeId, file, lastOp>>

vars == <<nodes, edges, state, pc, reachableNodes, validEdges, queue, visited,
          nodeId, nodeEdges, dequeues, expansions, evaluations, rule, edge, result,
          traceVars, hostVars>>

flowLocals == <<reachableNodes, validEdges, queue, visited, nodeId, nodeEdges,
                dequeues, expansions, evaluations>>

----------------------------------------------------------------------------
(* JavaScript values: string | number | boolean, plus undefined and the     *)
(* function objects a lookup can find on Object.prototype.                 *)

Str(s) == [type |-> "string", str |-> s, num |-> 0, bool |-> FALSE]
Num(n) == [type |-> "number", str |-> "", num |-> n, bool |-> FALSE]
Bool(b) == [type |-> "boolean", str |-> "", num |-> 0, bool |-> b]
Undefined == [type |-> "undefined", str |-> "", num |-> 0, bool |-> FALSE]
Function(name) == [type |-> "function", str |-> name, num |-> 0, bool |-> FALSE]

\* typeof v
typeof(v) == v.type

\* ToNumber(v) of the coercing operators (==, <, > without a typeof guard):
\* the only numeric string of the value universe is "5"; IsNaN tells the
\* values that convert to NaN.
IsNaN(v) == v.type \notin {"number", "boolean"} /\ ~(v.type = "string" /\ v.str = "5")
ToNumber(v) ==
  IF v.type = "number" THEN v.num
  ELSE IF v.type = "boolean" THEN (IF v.bool THEN 1 ELSE 0)
  ELSE 5

\* Mutant of StrictEquals, a == b: a number and a string compare by number.
LooseEquals(a, b) ==
  \/ a = b
  \/ /\ {a.type, b.type} = {"number", "string"}
     /\ ~IsNaN(a) /\ ~IsNaN(b)
     /\ ToNumber(a) = ToNumber(b)

\* a === b: same type and same value (function objects: same reference).
StrictEquals(a, b) == a = b

\* Property names every plain object inherits from Object.prototype
\* (two representatives); the context is created as the literal {}.
ObjectPrototypeKeys == {"constructor", "toString"}

\* state[key]: an own property, else a property inherited from
\* Object.prototype, else undefined.
Get(obj, key) ==
  IF key \in DOMAIN obj THEN obj[key]
  ELSE IF key \in ObjectPrototypeKeys THEN Function(key)
  ELSE Undefined

----------------------------------------------------------------------------
(* Rules and edges *)

Operators == {"is", "is_not", "greater_than", "less_than"}

Rule(c, op, v) == [condition |-> c, operator |-> op, value |-> v]

\* edge.data is optional and so is edge.data.rules
NoData == [defined |-> FALSE, hasRules |-> FALSE, rules |-> <<>>]
NoRules == [defined |-> TRUE, hasRules |-> FALSE, rules |-> <<>>]
EdgeData(rs) == [defined |-> TRUE, hasRules |-> TRUE, rules |-> rs]

Edge(i, s, t, d) == [id |-> i, source |-> s, target |-> t, data |-> d]

\* edge.data?.rules || []
RulesOf(e) == IF e.data.defined /\ e.data.hasRules THEN e.data.rules ELSE <<>>

----------------------------------------------------------------------------
(* evaluateRule *)

\* Mutant of GreaterThan: >= in place of >.
GreaterThanOrEqual(currentValue, value) ==
  /\ typeof(currentValue) = "number"
  /\ typeof(value) = "number"
  /\ currentValue.num >= value.num

\* case 'greater_than'
GreaterThan(currentValue, value) ==
  /\ typeof(currentValue) = "number"
  /\ typeof(value) = "number"
  /\ currentValue.num > value.num

\* Mutant of LessThan: the typeof guards dropped, so < coerces its operands.
LessThanCoercing(currentValue, value) ==
  /\ ~IsNaN(currentValue)
  /\ ~IsNaN(value)
  /\ ToNumber(currentValue) < ToNumber(value)

\* case 'less_than'
LessThan(currentValue, value) ==
  /\ typeof(currentValue) = "number"
  /\ typeof(value) = "number"
  /\ currentValue.num < value.num

\* Mutant of evaluateRule: an unknown operator fails closed.
evaluateRuleFailClosed(r, st) ==
  LET currentValue == Get(st, r.condition) IN
  IF StrictEquals(currentValue, Undefined) THEN TRUE
  ELSE CASE r.operator = "is" -> StrictEquals(currentValue, r.value)
         [] r.operator = "is_not" -> ~StrictEquals(currentValue, r.value)
         [] r.operator = "greater_than" -> GreaterThan(currentValue, r.value)
         [] r.operator = "less_than" -> LessThan(currentValue, r.value)
         [] OTHER -> FALSE

\* Variant of evaluateRule: a rule passes unevaluated only when the context
\* holds no binding at all, in place of no binding for the rule's condition.
evaluateRuleUnlessEmpty(r, st) ==
  LET currentValue == Get(st, r.condition) IN
  IF DOMAIN st = {} THEN TRUE
  ELSE CASE r.operator = "is" -> StrictEquals(currentValue, r.value)
         [] r.operator = "is_not" -> ~StrictEquals(currentValue, r.value)
         [] r.operator = "greater_than" -> GreaterThan(currentValue, r.value)
         [] r.operator = "less_than" -> LessThan(currentValue, r.value)
         [] OTHER -> TRUE

\* evaluateRule(rule, state)
evaluateRule(r, st) ==
  LET currentValue == Get(st, r.condition) IN
  IF StrictEquals(currentValue, Undefined) THEN TRUE
  ELSE CASE r.operator = "is" -> StrictEquals(currentValue, r.value)
         [] r.operator = "is_not" -> ~StrictEquals(currentValue, r.value)
         [] r.operator = "greater_than" -> GreaterThan(currentValue, r.value)
         [] r.operator = "less_than" -> LessThan(currentValue, r.value)
         [] OTHER -> TRUE

\* Mutant of evaluateEdgeRules: Array.some in place of Array.every.
evaluateEdgeRulesSome(e, st) ==
  LET rules == RulesOf(e) IN
  IF Len(rules) = 0 THEN TRUE
  ELSE \E i \in 1..Len(rules) : evaluateRule(rules[i], st)

\* evaluateEdgeRules(edge, state)
evaluateEdgeRules(e, st) ==
  LET rules == RulesOf(e) IN
  IF Len(rules) = 0 THEN TRUE
  ELSE \A i \in 1..Len(rules) : evaluateRule(rules[i], st)

----------------------------------------------------------------------------
(* evaluateFlow *)

\* Mutant of RootNodes: every node is taken as a root.
RootNodesAll(ns, es) == ns

\* rootNodes: the nodes that are the target of no edge, in node order.
RootNodes(ns, es) ==
  LET nodesWithIncoming == {es[i].target : i \in DOMAIN es} IN
  SelectSeq(ns, LAMBDA n : n.id \notin nodesWithIncoming)

\* Mutant of OutgoingEdges: the adjacency entry is overwritten instead of
\* appended to, so only the last edge of each source is kept.
OutgoingEdgesLast(es, id) ==
  LET out == SelectSeq(es, LAMBDA e : e.source = id) IN
  IF out = <<>> THEN <<>> ELSE <<out[Len(out)]>>

\* outgoingEdges.get(id) || []: the edges with that source, in edge order.
OutgoingEdges(es, id) == SelectSeq(es, LAMBDA e : e.source = id)

\* Mutant of AlreadyVisited: the process-once guard dropped.
NeverVisited(id, vis) == FALSE

\* visited.has(nodeId)
AlreadyVisited(id, vis) == id \in vis

\* Mutant of EdgeValid: the rule result is negated.
EdgeValidNegatingRules(e, reach, st) == e.source \in reach /\ ~evaluateEdgeRules(e, st)

\* Mutant of EdgeValid: the rules are not consulted.
EdgeValidIgnoringRules(e, reach, st) == e.source \in reach

\* edgeValid = sourceReachable && rulesPass
EdgeValid(e, reach, st) ==
  LET sourceReachable == e.source \in reach
      rulesPass == evaluateEdgeRules(e, st)
  IN sourceReachable /\ rulesPass

\* validEdges.set(id, b)
MapSet(m, id, b) == (id :> b) @@ m

\* Mutant of MarkUnvisited: the closing loop left out.
MarkUnvisitedNone(es, ve) == ve

\* Mutant of MarkUnvisited: the edges never evaluated are set to true.
MarkUnvisitedTrue(es, ve) ==
  [id \in DOMAIN ve \cup {es[i].id : i \in DOMAIN es} |->
     IF id \in DOMAIN ve THEN ve[id] ELSE TRUE]

\* The closing loop: every edge id not yet in validEdges is set to false.
MarkUnvisited(es, ve) ==
  [id \in DOMAIN ve \cup {es[i].id : i \in DOMAIN es} |->
     IF id \in DOMAIN ve THEN ve[id] ELSE FALSE]

EmptyMap == [id \in {} |-> FALSE]

\* Lines 106-129: the result containers, the roots, the queue seeded with them.
FlowStart ==
  /\ pc = "start"
  /\ LET rootNodes == RootNodes(nodes, edges) IN
       /\ reachableNodes' = {rootNodes[i].id : i \in DOMAIN rootNodes}
       /\ queue' = [i \in DOMAIN rootNodes |-> rootNodes[i].id]
  /\ validEdges' = EmptyMap
  /\ visited' = {}
  /\ pc' = "loop"
  /\ UNCHANGED <<nodes, edges, state, nodeId, nodeEdges, dequeues, expansions,
                 evaluations, rule, edge, result>>
  /\ UNCHANGED traceVars
  /\ UNCHANGED hostVars

\* queue.shift() of a node already visited: continue.
FlowSkip ==
  /\ pc = "loop"
  /\ queue # <<>>
  /\ AlreadyVisited(Head(queue), visited)
  /\ nodeId' = Head(queue)
  /\ queue' = Tail(queue)
  /\ dequeues' = dequeues + 1
  /\ UNCHANGED <<nodes, edges, state, pc, reachableNodes, validEdges, visited,
                 nodeEdges, expansions, evaluations, rule, edge, result>>
  /\ UNCHANGED traceVars
  /\ UNCHANGED hostVars

\* queue.shift() of a node not yet visited: mark it and fetch its edges.
FlowVisit ==
  /\ pc = "loop"
  /\ queue # <<>>
  /\ ~AlreadyVisited(Head(queue), visited)
  /\ nodeId' = Head(queue)
  /\ queue' = Tail(queue)
  /\ dequeues' = dequeues + 1
  /\ visited' = visited \cup {Head(queue)}
  /\ nodeEdges' = OutgoingEdges(edges, Head(queue))
  /\ expansions' = Append(expansions, Head(queue))
  /\ pc' = IF nodeEdges' = <<>> THEN "loop" ELSE "edges"
  /\ UNCHANGED <<nodes, edges, state, reachableNodes, validEdges, evaluations,
                 rule, edge, result>>
  /\ UNCHANGED traceVars
  /\ UNCHANGED hostVars

\* One iteration of the loop over nodeEdges.
FlowEvalEdge ==
  /\ pc = "edges"
  /\ nodeEdges # <<>>
  /\ LET e == Head(nodeEdges)
         edgeValid == EdgeValid(e, reachableNodes, state)
     IN /\ validEdges' = MapSet(validEdges, e.id, edgeValid)
        /\ reachableNodes' = IF edgeValid THEN reachableNodes \cup {e.target}
                             ELSE reachableNodes
        /\ queue' = IF edgeValid THEN Append(queue, e.target) ELSE queue
        /\ evaluations' = Append(evaluations, e.id)
  /\ nodeEdges' = Tail(nodeEdges)
  /\ pc' = IF nodeEdges' = <<>> THEN "loop" ELSE "edges"
  /\ UNCHANGED <<nodes, edges, state, visited, nodeId, dequeues, expansions,
                 rule, edge, result>>
  /\ UNCHANGED traceVars
  /\ UNCHANGED hostVars

\* The queue is empty: mark the edges never evaluated and return.
FlowMark ==
  /\ pc = "loop"
  /\ queue = <<>>
  /\ validEdges' = MarkUnvisited(edges, validEdges)
  /\ pc' = "done"
  /\ UNCHANGED <<nodes, edges, state, reachableNodes, queue, visited, nodeId,
                 nodeEdges, dequeues, expansions, evaluations, rule, edge, result>>
  /\ UNCHANGED traceVars
  /\ UNCHANGED hostVars

\* The loop over nodeEdges as a function: r holds reachableNodes, validEdges
\* and queue.
RECURSIVE ExpandEdges(_, _, _)
ExpandEdges(out, st, r) ==
  IF out = <<>> THEN r
  ELSE LET e == Head(out)
           edgeValid == EdgeValid(e, r.reachableNodes, st)
       IN ExpandEdges(Tail(out), st,
            [reachableNodes |-> IF edgeValid THEN r.reachableNodes \cup {e.target}
                                ELSE r.reachableNodes,
             validEdges |-> MapSet(r.validEdges, e.id, edgeValid),
             queue |-> IF edgeValid THEN Append(r.queue, e.target) ELSE r.queue])

\* The while loop as a function: vis is the visited set.
RECURSIVE FlowLoop(_, _, _, _)
FlowLoop(es, st, vis, r) ==
  IF r.queue = <<>> THEN r
  ELSE LET id == Head(r.queue)
           rest == [r EXCEPT !.queue = Tail(r.queue)]
       IN IF AlreadyVisited(id, vis) THEN FlowLoop(es, st, vis, rest)
          ELSE FlowLoop(es, st, vis \cup {id},
                        ExpandEdges(OutgoingEdges(es, id), st, rest))

\* evaluateFlow(nodes, edges, state) as a function of its arguments: the
\* result the steps FlowStart .. FlowMark arrive at.
evaluateFlow(ns, es, st) ==
  LET rootNodes == RootNodes(ns, es)
      r == FlowLoop(es, st, {},
             [reachableNodes |-> {rootNodes[i].id : i \in DOMAIN rootNodes},
              validEdges |-> EmptyMap,
              queue |-> [i \in DOMAIN rootNodes |-> rootNodes[i].id]])
  IN [reachableNodes |-> r.reachableNodes,
      validEdges |-> MarkUnvisited(es, r.validEdges)]

----------------------------------------------------------------------------
(* Inputs *)

MaxEdges == 2
MaxRules == 2

NodeIds == {"A", "B", "C"}
Node(i) == [id |-> i]

\* Node lists: the graph of 0 to 3 nodes. An edge endpoint outside the list
\* is a dangling endpoint.
NodeLists ==
  {<<>>, <<Node("A")>>, <<Node("A"), Node("B")>>, <<Node("A"), Node("B"), Node("C")>>}

EdgeIds == <<"e1", "e2", "e3", "e4">>

RoleIsAdmin == Rule("role", "is", Str("admin"))

\* Rule lists of the edges of a flow: none, or one gate on role.
FlowEdgeData == {EdgeData(<<>>), EdgeData(<<RoleIsAdmin>>)}

EdgeShapes == [source : NodeIds, target : NodeIds, data : FlowEdgeData]

\* Edge sequences of up to MaxEdges edges with unique ids.
EdgeLists ==
  UNION {
    {[i \in 1..n |-> Edge(EdgeIds[i], f[i].source, f[i].target, f[i].data)] :
       f \in [1..n -> EdgeShapes]} : n \in 0..MaxEdges}

\* All contexts binding the names of S to values of V.
ContextsOver(S, V) == UNION {[D -> V] : D \in SUBSET S}

FlowContexts == ContextsOver({"role"}, {Str("admin"), Str("guest")})

ValueUniverse ==
  {Str("admin"), Str("5"), Num(3), Num(5), Bool(TRUE), Bool(FALSE)}

\* "contains" stands for an operator outside RuleOperator (an imported file).
RuleUniverse ==
  {Rule(c, op, v) : c \in {"role", "constructor"},
                    op \in Operators \cup {"contains"},
                    v \in ValueUniverse}

RuleContexts == ContextsOver({"role", "constructor"}, ValueUniverse)

EdgeRuleUniverse ==
  {Rule("role", "is", Str("admin")), Rule("role", "is_not", Str("5")),
   Rule("level", "greater_than", Num(3)), Rule("level", "less_than", Num(5))}

RuleLists == UNION {[1..n -> EdgeRuleUniverse] : n \in 0..MaxRules}

EdgeDataUniverse == {NoData, NoRules} \cup {EdgeData(rs) : rs \in RuleLists}

EdgeContexts == ContextsOver({"role", "level"}, {Str("admin"), Num(3), Num(5)})

IdleRule == RoleIsAdmin
IdleEdge == Edge("e1", "A", "B", NoData)

Null == "null"

TraceIdle ==
  /\ isSimulating = FALSE
  /\ isTraceMode = FALSE
  /\ hoveredNodeId = Null
  /\ highlightedNodes = {}
  /\ highlightedEdges = {}
  /\ traceQueue = <<>>
  /\ incoming = <<>>
  /\ enqueues = <<>>

\* No file has been read and no host operation has run.
NoFile == [parses |-> FALSE]
NoOp == [name |-> "none", ids |-> {}]

HostIdle ==
  /\ selectedNodeId = Null
  /\ selectedEdgeId = Null
  /\ file = NoFile
  /\ lastOp = NoOp

FlowIdle ==
  /\ reachableNodes = {}
  /\ validEdges = EmptyMap
  /\ queue = <<>>
  /\ visited = {}
  /\ nodeId = ""
  /\ nodeEdges = <<>>
  /\ dequeues = 0
  /\ expansions = <<>>
  /\ evaluations = <<>>

----------------------------------------------------------------------------
(* Spec: one call of evaluateFlow(nodes, edges, state) *)

Init ==
  /\ nodes \in NodeLists
  /\ edges \in EdgeLists
  /\ state \in FlowContexts
  /\ pc = "start"
  /\ FlowIdle
  /\ TraceIdle
  /\ HostIdle
  /\ rule = IdleRule
  /\ edge = IdleEdge
  /\ result = Undefined

Next == FlowStart \/ FlowSkip \/ FlowVisit \/ FlowEvalEdge \/ FlowMark

Spec == Init /\ [][Next]_vars

----------------------------------------------------------------------------
(* SpecRule: one call of evaluateRule(rule, state) *)

InitRule ==
  /\ rule \in RuleUniverse
  /\ state \in RuleContexts
  /\ pc = "call"
  /\ nodes = <<>>
  /\ edges = <<>>
  /\ FlowIdle
  /\ TraceIdle
  /\ HostIdle
  /\ edge = IdleEdge
  /\ result = Undefined

CallEvaluateRule ==
  /\ pc = "call"
  /\ result' = Bool(evaluateRule(rule, state))
  /\ pc' = "returned"
  /\ UNCHANGED <<nodes, edges, state, flowLocals, rule, edge>>
  /\ UNCHANGED traceVars
  /\ UNCHANGED hostVars

NextRule == CallEvaluateRule

SpecRule == InitRule /\ [][NextRule]_vars

----------------------------------------------------------------------------
(* SpecEdgeRules: one call of evaluateEdgeRules(edge, state) *)

InitEdgeRules ==
  /\ edge \in {Edge("e1", "A", "B", d) : d \in EdgeDataUniverse}
  /\ state \in EdgeContexts
  /\ pc = "call"
  /\ nodes = <<>>
  /\ edges = <<>>
  /\ FlowIdle
  /\ TraceIdle
  /\ HostIdle
  /\ rule = IdleRule
  /\ result = Undefined

CallEvaluateEdgeRules ==
  /\ pc = "call"
  /\ result' = Bool(evaluateEdgeRules(edge, state))
  /\ pc' = "returned"
  /\ UNCHANGED <<nodes, edges, state, flowLocals, rule, edge>>
  /\ UNCHANGED traceVars
  /\ UNCHANGED hostVars

NextEdgeRules == CallEvaluateEdgeRules

SpecEdgeRules == InitEdgeRules /\ [][NextEdgeRules]_vars

----------------------------------------------------------------------------
(* Properties of evaluateFlow (Spec) *)

NodeIdSet == {nodes[i].id : i \in DOMAIN nodes}
EdgeIdSet == {edges[i].id : i \in DOMAIN edges}

\* The ids of the nodes no edge points to.
RootIds == {n \in NodeIdSet : \A i \in DOMAIN edges : edges[i].target # n}

\* The indices of the edges whose rules all pass under the context.
SatisfiedEdges == {i \in DOMAIN edges : evaluateEdgeRules(edges[i], state)}

\* The ids a path of satisfied edges leads to from a member of S
\* (the path of length zero included).
RECURSIVE PathClosure(_)
PathClosure(S) ==
  LET step == S \cup {edges[i].target : i \in {j \in SatisfiedEdges : edges[j].source \in S}}
  IN IF step = S THEN S ELSE PathClosure(step)

EndpointsAreNodes ==
  \A i \in DOMAIN edges : edges[i].source \in NodeIdSet /\ edges[i].target \in NodeIdSet

NoDuplicates(seq) == \A i, j \in DOMAIN seq : seq[i] = seq[j] => i = j

\* C1: when evaluateFlow returns, the keys of validEdges are exactly the ids
\* of the input edges, whether or not an edge's source was reached or is a node.
C1_ValidEdgesCoverEdgeIds ==
  pc = "done" => DOMAIN validEdges = EdgeIdSet

\* A run with a root, an edge whose source is no node and an edge whose
\* source is a node that was never reached; no edge was evaluated.
C1_Witness ==
  /\ pc = "done"
  /\ reachableNodes # {}
  /\ evaluations = <<>>
  /\ \E i \in DOMAIN edges : edges[i].source \notin NodeIdSet
  /\ \E i \in DOMAIN edges : edges[i].source \in NodeIdSet \ reachableNodes
  /\ DOMAIN validEdges = EdgeIdSet

\* C2: with every edge endpoint a node, the returned reachableNodes are
\* exactly the nodes a path of rule-satisfied edges leads to from a root;
\* roots are always reachable; without edges every node is reachable and
\* validEdges is empty.
C2_ReachableIffPath ==
  (pc = "done" /\ EndpointsAreNodes) =>
    /\ reachableNodes = PathClosure(RootIds)
    /\ RootIds \subseteq reachableNodes
    /\ edges = <<>> => (reachableNodes = NodeIdSet /\ validEdges = EmptyMap)

\* A run on a well-formed graph where a non-root node is reached and
\* another node is not.
C2_Witness ==
  /\ pc = "done"
  /\ EndpointsAreNodes
  /\ reachableNodes \ RootIds # {}
  /\ NodeIdSet \ reachableNodes # {}

\* C3: when evaluateFlow returns, an edge is valid iff its source is in
\* reachableNodes and all its rules pass under the context.
C3_ValidIffSourceReachableAndRulesPass ==
  pc = "done" =>
    \A i \in DOMAIN edges :
      /\ edges[i].id \in DOMAIN validEdges
      /\ validEdges[edges[i].id] =
           (edges[i].source \in reachableNodes /\ evaluateEdgeRules(edges[i], state))

\* A run with an edge whose source is reachable and whose rules fail, and an
\* edge whose rules pass and whose source is unreachable: both false.
C3_Witness ==
  /\ pc = "done"
  /\ \E i \in DOMAIN edges :
       /\ edges[i].source \in reachableNodes
       /\ ~evaluateEdgeRules(edges[i], state)
       /\ validEdges[edges[i].id] = FALSE
  /\ \E i \in DOMAIN edges :
       /\ edges[i].source \notin reachableNodes
       /\ evaluateEdgeRules(edges[i], state)
       /\ validEdges[edges[i].id] = FALSE

\* C4: evaluateFlow terminates: until it returns a step is always possible,
\* the number of loop iterations is bounded by nodes plus edges, no node is
\* expanded twice and no edge's rules are evaluated twice.
C4_ExpandOnceAndTerminate ==
  /\ pc = "done" \/ ENABLED Next
  /\ dequeues <= Len(nodes) + Len(edges)
  /\ NoDuplicates(expansions)
  /\ NoDuplicates(evaluations)

\* A run on a graph with a valid self-loop in which a node was dequeued a
\* second time and skipped.
C4_Witness ==
  /\ pc = "done"
  /\ dequeues > Len(expansions)
  /\ \E i \in DOMAIN edges :
       /\ edges[i].source = edges[i].target
       /\ edges[i].id \in DOMAIN validEdges
       /\ validEdges[edges[i].id]

----------------------------------------------------------------------------
(* Properties of evaluateRule (SpecRule) *)

\* Same type and same value of two string | number | boolean values.
SameTypeAndValue(a, b) ==
  /\ a.type = b.type
  /\ a.type = "string" => a.str = b.str
  /\ a.type = "number" => a.num = b.num
  /\ a.type = "boolean" => a.bool = b.bool

\* The context has an entry for the rule's condition.
Bound == rule.condition \in DOMAIN state

\* C5: a rule with one of the four operators whose condition has no entry
\* in the context passes.
C5_AbsentConditionPasses ==
  (pc = "returned" /\ ~Bound /\ rule.operator \in Operators) => result = Bool(TRUE)

\* C6: with the condition bound to v, `is` passes iff v and the rule value
\* have the same type and value, and `is_not` passes iff `is` fails.
C6_IsStrictIsNotNegation ==
  (pc = "returned" /\ Bound) =>
    LET v == state[rule.condition] IN
    /\ rule.operator = "is" => result = Bool(SameTypeAndValue(v, rule.value))
    /\ rule.operator = "is_not" =>
         /\ result = Bool(~SameTypeAndValue(v, rule.value))
         /\ result = Bool(~evaluateRule([rule EXCEPT !.operator = "is"], state))

\* The number 5 against the string "5" under `is`: the rule fails.
C6_Witness ==
  /\ pc = "returned"
  /\ Bound
  /\ rule.operator = "is"
  /\ state[rule.condition] = Num(5)
  /\ rule.value = Str("5")
  /\ result = Bool(FALSE)

\* C7: with the condition bound to v, greater_than (less_than) passes iff v
\* and the rule value are both numbers and v > value (v < value).
C7_NumericComparison ==
  (pc = "returned" /\ Bound) =>
    LET v == state[rule.condition]
        numeric == v.type = "number" /\ rule.value.type = "number"
    IN
    /\ rule.operator = "greater_than" =>
         result = Bool(numeric /\ v.num > rule.value.num)
    /\ rule.operator = "less_than" =>
         result = Bool(numeric /\ v.num < rule.value.num)

\* Equal numbers under greater_than: the rule fails.
C7_Witness ==
  /\ pc = "returned"
  /\ Bound
  /\ rule.operator = "greater_than"
  /\ state[rule.condition] = Num(5)
  /\ rule.value = Num(5)
  /\ result = Bool(FALSE)

\* The context value and the rule value differ in type.
TypeMismatch == Bound /\ state[rule.condition].type # rule.value.type

\* C8 as claimed: a type mismatch resolves to false for every operator.
C8_TypeMismatchIsFalse ==
  (pc = "returned" /\ TypeMismatch /\ rule.operator \in Operators) =>
    result = Bool(FALSE)

\* C8 as amended: a type mismatch resolves to false for is, greater_than and
\* less_than, and to true for is_not and for an unknown operator.
C8_TypeMismatchByOperator ==
  (pc = "returned" /\ TypeMismatch) =>
    result = Bool(rule.operator \notin {"is", "greater_than", "less_than"})

\* A boolean against a number under is_not: the rule passes.
C8_Witness ==
  /\ pc = "returned"
  /\ TypeMismatch
  /\ rule.operator = "is_not"
  /\ state[rule.condition].type = "boolean"
  /\ rule.value.type = "number"
  /\ result = Bool(TRUE)

\* C9: evaluateRule always returns, its result is a boolean, and a rule with
\* an operator outside the four passes whatever the context holds.
C9_TotalUnknownOperatorPasses ==
  /\ pc = "call" => ENABLED CallEvaluateRule
  /\ pc = "returned" =>
       /\ result \in {Bool(TRUE), Bool(FALSE)}
       /\ rule.operator \notin Operators => result = Bool(TRUE)

\* An unknown operator with the condition bound to a value other than the
\* rule's: the rule passes.
C9_Witness ==
  /\ pc = "returned"
  /\ rule.operator \notin Operators
  /\ Bound
  /\ state[rule.condition] # rule.value
  /\ result = Bool(TRUE)

----------------------------------------------------------------------------
(* Properties of evaluateEdgeRules (SpecEdgeRules) *)

Reverse(seq) == [i \in DOMAIN seq |-> seq[Len(seq) + 1 - i]]

----------------------------------------------------------------------------
(* Further properties of evaluateFlow (Spec) *)

\* The sequence seq reordered by the permutation p of its indices.
Permuted(seq, p) == [i \in DOMAIN seq |-> seq[p[i]]]

\* C11: the result of evaluateFlow is the same for every reordering of the
\* node sequence and of the edge sequence under the same context (the
\* identity reordering: a repeated call).
C11_OrderIndependent ==
  pc = "done" =>
    \A p \in Permutations(DOMAIN nodes), q \in Permutations(DOMAIN edges) :
      evaluateFlow(Permuted(nodes, p), Permuted(edges, q), state) =
        [reachableNodes |-> reachableNodes, validEdges |-> validEdges]

\* A run with two roots and two edges out of the same node, one valid and
\* one not.
C11_Witness ==
  /\ pc = "done"
  /\ Cardinality(RootIds) >= 2
  /\ \E i, j \in DOMAIN edges :
       /\ edges[i].source = edges[j].source
       /\ validEdges[edges[i].id]
       /\ ~validEdges[edges[j].id]

\* The ids that are the target of some edge.
TargetIds == {edges[i].target : i \in DOMAIN edges}

\* C12: a node that is the target of an edge is never seeded as a root: it
\* is in reachableNodes only once an edge into it was found valid; when every
\* node is the target of an edge, the result is no reachable node and every
\* edge false.
C12_TargetsAreNotRoots ==
  /\ pc # "start" =>
       \A n \in reachableNodes \cap TargetIds :
         \E i \in DOMAIN edges :
           /\ edges[i].target = n
           /\ edges[i].id \in DOMAIN validEdges
           /\ validEdges[edges[i].id]
  /\ (pc = "done" /\ NodeIdSet \subseteq TargetIds) =>
       /\ reachableNodes = {}
       /\ \A i \in DOMAIN edges : validEdges[edges[i].id] = FALSE

\* A run on two nodes that form a cycle of rule-satisfied edges.
C12_Witness ==
  /\ pc = "done"
  /\ Len(nodes) = 2
  /\ NodeIdSet \subseteq TargetIds
  /\ \A i \in DOMAIN edges :
       /\ edges[i].source # edges[i].target
       /\ edges[i].source \in NodeIdSet
       /\ evaluateEdgeRules(edges[i], state)
  /\ reachableNodes = {}

----------------------------------------------------------------------------
(* Strings: String(v) and a.localeCompare(b) over digits and lower-case     *)
(* letters, where the collation order is the order of Alphabet.            *)

Alphabet ==
  <<"0", "1", "2", "3", "4", "5", "6", "7", "8", "9",
    "a", "b", "c", "d", "e", "f", "g", "h", "i", "j", "k", "l", "m",
    "n", "o", "p", "q", "r", "s", "t", "u", "v", "w", "x", "y", "z">>

CharRank(c) == CHOOSE i \in DOMAIN Alphabet : Alphabet[i] = c

\* The characters of the strings that occur as condition names and values.
Chars(s) ==
  CASE s = "age" -> <<"a", "g", "e">>
    [] s = "role" -> <<"r", "o", "l", "e">>
    [] s = "unknown" -> <<"u", "n", "k", "n", "o", "w", "n">>
    [] s = "admin" -> <<"a", "d", "m", "i", "n">>
    [] s = "9" -> <<"9">>
    [] s = "5" -> <<"5">>
    [] s = "10" -> <<"1", "0">>
    [] s = "25" -> <<"2", "5">>
    [] s = "30" -> <<"3", "0">>
    [] s = "true" -> <<"t", "r", "u", "e">>
    [] s = "false" -> <<"f", "a", "l", "s", "e">>

\* The decimal digits of a natural number.
RECURSIVE Decimal(_)
Decimal(n) ==
  IF n < 10 THEN <<Alphabet[n + 1]>>
  ELSE Append(Decimal(n \div 10), Alphabet[(n % 10) + 1])

\* String(v)
StringOf(v) ==
  CASE v.type = "number" -> Decimal(v.num)
    [] v.type = "boolean" ->
         IF v.bool THEN <<"t", "r", "u", "e">> ELSE <<"f", "a", "l", "s", "e">>
    [] v.type = "string" -> Chars(v.str)

\* a.localeCompare(b) on character sequences: -1, 0 or 1.
RECURSIVE LocaleCompare(_, _)
LocaleCompare(a, b) ==
  IF a = <<>> THEN (IF b = <<>> THEN 0 ELSE -1)
  ELSE IF b = <<>> THEN 1
  ELSE IF CharRank(Head(a)) < CharRank(Head(b)) THEN -1
  ELSE IF CharRank(Head(a)) > CharRank(Head(b)) THEN 1
  ELSE LocaleCompare(Tail(a), Tail(b))

\* The elements of an array.
Elements(seq) == {seq[i] : i \in DOMAIN seq}

\* Array.prototype.sort(compare): the stable sort, each element placed after
\* the elements that compare smaller and the equal ones that came before it.
\* compare is the comparator as a function on pairs of elements.
StableSort(seq, compare) ==
  LET before(i) == {j \in DOMAIN seq :
                      \/ compare[seq[j], seq[i]] < 0
                      \/ compare[seq[j], seq[i]] = 0 /\ j < i}
  IN [k \in DOMAIN seq |-> seq[CHOOSE i \in DOMAIN seq : Cardinality(before(i)) = k - 1]]

----------------------------------------------------------------------------
(* discoverConditions *)

\* Set.add on a set kept in insertion order.
SetAdd(seq, v) == IF \E i \in DOMAIN seq : seq[i] = v THEN seq ELSE Append(seq, v)

\* conditionMap after one more rule: the entry of the rule's condition is
\* created if missing, and the rule's value added to its set.
MapAddRule(cm, r) ==
  IF \E i \in DOMAIN cm : cm[i].name = r.condition
  THEN [i \in DOMAIN cm |->
          IF cm[i].name = r.condition
          THEN [cm[i] EXCEPT !.values = SetAdd(cm[i].values, r.value)]
          ELSE cm[i]]
  ELSE Append(cm, [name |-> r.condition, values |-> <<r.value>>])

\* The inner loop over the rules of one edge.
RECURSIVE AddRules(_, _)
AddRules(cm, rules) ==
  IF rules = <<>> THEN cm ELSE AddRules(MapAddRule(cm, Head(rules)), Tail(rules))

\* The outer loop over the edges: conditionMap, in insertion order.
RECURSIVE ConditionMap(_, _)
ConditionMap(cm, es) ==
  IF es = <<>> THEN cm ELSE ConditionMap(AddRules(cm, RulesOf(Head(es))), Tail(es))

\* Variant of InferType: Array.some in place of Array.every.
InferTypeSome(valueArray) ==
  IF \E i \in DOMAIN valueArray : typeof(valueArray[i]) = "boolean" THEN "boolean"
  ELSE IF \E i \in DOMAIN valueArray : typeof(valueArray[i]) = "number" THEN "number"
  ELSE "enum"

\* Infer type from values
InferType(valueArray) ==
  IF \A i \in DOMAIN valueArray : typeof(valueArray[i]) = "boolean" THEN "boolean"
  ELSE IF \A i \in DOMAIN valueArray : typeof(valueArray[i]) = "number" THEN "number"
  ELSE "enum"

\* Variant of CompareValues: the numeric comparator a - b (NaN, taken as 0,
\* unless both are numbers).
CompareValuesNumeric(a, b) ==
  IF a.type = "number" /\ b.type = "number" THEN a.num - b.num ELSE 0

\* (a, b) => String(a).localeCompare(String(b))
CompareValues(a, b) == LocaleCompare(StringOf(a), StringOf(b))

\* (a, b) => a.name.localeCompare(b.name)
CompareNames(a, b) == LocaleCompare(Chars(a.name), Chars(b.name))

\* Variant of SortConditions: the entries are left in insertion order.
SortConditionsNone(conditions) == conditions

\* conditions.sort(...)
SortConditions(conditions) ==
  StableSort(conditions,
             [a \in Elements(conditions), b \in Elements(conditions) |-> CompareNames(a, b)])

\* discoverConditions(edges)
discoverConditions(es) ==
  LET conditionMap == ConditionMap(<<>>, es)
      conditions ==
        [i \in DOMAIN conditionMap |->
           LET valueArray == conditionMap[i].values IN
           [name |-> conditionMap[i].name,
            type |-> InferType(valueArray),
            options |-> StableSort(valueArray,
                                   [a \in Elements(valueArray), b \in Elements(valueArray)
                                      |-> CompareValues(a, b)])]]
  IN SortConditions(conditions)

----------------------------------------------------------------------------
(* SpecDiscover: one call of discoverConditions(edges) *)

MaxDiscoverRules == 3

DiscoverRuleUniverse ==
  {Rule("age", "is", Num(30)), Rule("age", "less_than", Num(25)),
   Rule("age", "is", Str("unknown")), Rule("age", "greater_than", Num(10)),
   Rule("age", "is_not", Num(9)), Rule("age", "is", Str("9")),
   Rule("role", "is", Bool(TRUE)), Rule("role", "is_not", Bool(FALSE)),
   Rule("role", "contains", Str("unknown"))}

DiscoverRuleLists ==
  UNION {[1..n -> DiscoverRuleUniverse] : n \in 0..MaxDiscoverRules}

\* No edges, or two edges sharing a rule sequence split at k; the first edge
\* has no data when it gets no rule.
DiscoverEdgeLists ==
  {<<>>} \cup
  {<<Edge("e1", "A", "B",
          IF k = 0 THEN NoData ELSE EdgeData(SubSeq(rs, 1, k))),
     Edge("e2", "B", "C", EdgeData(SubSeq(rs, k + 1, Len(rs))))>> :
     <<rs, k>> \in {x \in DiscoverRuleLists \X (0..MaxDiscoverRules) : x[2] <= Len(x[1])}}

EmptyContext == [n \in {} |-> Undefined]

InitDiscover ==
  /\ edges \in DiscoverEdgeLists
  /\ nodes = <<>>
  /\ state = EmptyContext
  /\ pc = "discover"
  /\ FlowIdle
  /\ TraceIdle
  /\ HostIdle
  /\ rule = IdleRule
  /\ edge = IdleEdge
  /\ result = Undefined

\* Variant: sorts each edge's rule list in place (by condition name) before
\* collecting the conditions.
CallDiscoverConditionsSortingRules ==
  /\ pc = "discover"
  /\ edges' = [i \in DOMAIN edges |->
                 IF edges[i].data.defined /\ edges[i].data.hasRules
                 THEN Edge(edges[i].id, edges[i].source, edges[i].target,
                           EdgeData(StableSort(edges[i].data.rules,
                                               [a \in Elements(edges[i].data.rules),
                                                b \in Elements(edges[i].data.rules)
                                                  |-> LocaleCompare(Chars(a.condition),
                                                                    Chars(b.condition))])))
                 ELSE edges[i]]
  /\ result' = discoverConditions(edges)
  /\ pc' = "discovered"
  /\ UNCHANGED <<nodes, state, flowLocals, rule, edge, traceVars, hostVars>>

CallDiscoverConditions ==
  /\ pc = "discover"
  /\ result' = discoverConditions(edges)
  /\ pc' = "discovered"
  /\ UNCHANGED <<nodes, edges, state, flowLocals, rule, edge, traceVars, hostVars>>

NextDiscover == CallDiscoverConditions

SpecDiscover == InitDiscover /\ [][NextDiscover]_vars

----------------------------------------------------------------------------
(* Properties of discoverConditions (SpecDiscover) *)

\* Every rule of every edge.
AllRules == UNION {{RulesOf(edges[i])[j] : j \in DOMAIN RulesOf(edges[i])} : i \in DOMAIN edges}

ObservedNames == {r.condition : r \in AllRules}
Observed(name) == {r.value : r \in {x \in AllRules : x.condition = name}}

\* a comes strictly before b in the order of Alphabet, character by character.
LexLess(a, b) ==
  \E k \in 1..(Len(b)) :
    /\ k <= Len(a) + 1
    /\ \A i \in 1..(k - 1) : a[i] = b[i]
    /\ k = Len(a) + 1 \/ CharRank(a[k]) < CharRank(b[k])

\* C13: discoverConditions returns one entry per distinct condition name of
\* the rules, in ascending order of name; none when there is no rule; every
\* entry has an option.
C13_OneEntryPerConditionSorted ==
  pc = "discovered" =>
    /\ {result[i].name : i \in DOMAIN result} = ObservedNames
    /\ Len(result) = Cardinality(ObservedNames)
    /\ \A i, j \in DOMAIN result :
         i < j => LexLess(Chars(result[i].name), Chars(result[j].name))
    /\ AllRules = {} => result = <<>>
    /\ \A i \in DOMAIN result : Len(result[i].options) >= 1

\* Rules on "role" come before rules on "age" in the edges, under different
\* operators: the entries are age, role.
C13_Witness ==
  /\ pc = "discovered"
  /\ Len(result) = 2
  /\ result[1].name = "age"
  /\ result[2].name = "role"
  /\ RulesOf(edges[1]) # <<>>
  /\ RulesOf(edges[1])[1].condition = "role"
  /\ Cardinality({r.operator : r \in AllRules}) >= 2

\* C14: an entry's type is boolean iff every observed value of its name is a
\* boolean, else number iff every observed value is a number, else enum.
C14_TypeInference ==
  pc = "discovered" =>
    \A i \in DOMAIN result :
      LET obs == Observed(result[i].name) IN
      result[i].type =
        IF \A v \in obs : v.type = "boolean" THEN "boolean"
        ELSE IF \A v \in obs : v.type = "number" THEN "number"
        ELSE "enum"

\* One name observed with a boolean and a string (enum), another with a
\* number only.
C14_Witness ==
  /\ pc = "discovered"
  /\ \E i \in DOMAIN result :
       /\ result[i].type = "enum"
       /\ \E v \in Observed(result[i].name) : v.type = "boolean"
  /\ \E i \in DOMAIN result :
       /\ result[i].type = "number"
       /\ \A v \in Observed(result[i].name) : v.type = "number"

\* C15: an entry's options hold every observed value of its name once,
\* ordered by string form (10 before 9); 30, 25, "unknown" give an enum with
\* options 25, 30, unknown.
C15_OptionsDistinctStringSorted ==
  pc = "discovered" =>
    \A i \in DOMAIN result :
      LET obs == Observed(result[i].name)
          opts == result[i].options
      IN
      /\ {opts[j] : j \in DOMAIN opts} = obs
      /\ Len(opts) = Cardinality(obs)
      /\ \A j, k \in DOMAIN opts :
           j < k => ~LexLess(StringOf(opts[k]), StringOf(opts[j]))
      /\ \A j, k \in DOMAIN opts :
           (opts[j] = Num(9) /\ opts[k] = Num(10)) => k < j
      /\ obs = {Num(30), Num(25), Str("unknown")} =>
           /\ result[i].type = "enum"
           /\ opts = <<Num(25), Num(30), Str("unknown")>>

\* The numbers 9 and 10 and the string "9" observed for one name: 10 comes
\* before both 9s.
C15_Witness ==
  /\ pc = "discovered"
  /\ \E i \in DOMAIN result :
       /\ Observed(result[i].name) = {Num(9), Num(10), Str("9")}
       /\ result[i].options[1] = Num(10)
       /\ Len(result[i].options) = 3

\* ---------------------------------------------------------------------------
\* traceHighlight: the ancestor trace of the hovered node (useFlowGraph)
\* ---------------------------------------------------------------------------

\* Variant: follows the edges leaving the node instead of those entering it.
IncomingEdgesBySource(es, id) == SelectSeq(es, LAMBDA e : e.source = id)

\* Variant: keeps an incoming edge only when the simulation finds its rules
\* satisfied.
IncomingEdgesValidOnly(es, id) ==
  SelectSeq(es, LAMBDA e : e.target = id /\ (~isSimulating \/ evaluateEdgeRules(e, state)))

\* incomingEdges.get(nodeId) || []: the edges whose target is the node, in
\* edge-list order.
IncomingEdges(es, id) == SelectSeq(es, LAMBDA e : e.target = id)

\* Variant: an edge is highlighted only when it discovers a new source.
HighlightEdgeIfNew(he, hn, e) == IF e.source \notin hn THEN he \cup {e.id} ELSE he

\* highlightedEdges.add(edge.id), for every incoming edge.
HighlightEdge(he, hn, e) == he \cup {e.id}

\* Variant: the membership guard is dropped.
NeverHighlighted(hn, id) == TRUE

\* !highlightedNodes.has(edge.source)
NotHighlighted(hn, id) == id \notin hn

\* The early return: trace mode off or no hovered node.
TraceInactive ==
  /\ pc = "trace"
  /\ ~isTraceMode \/ hoveredNodeId = Null
  /\ highlightedNodes' = {}
  /\ highlightedEdges' = {}
  /\ pc' = "traced"
  /\ UNCHANGED <<nodes, edges, state, flowLocals, rule, edge, result, hostVars>>
  /\ UNCHANGED <<isSimulating, isTraceMode, hoveredNodeId, traceQueue, incoming, enqueues>>

\* queue = [hoveredNodeId]; highlightedNodes.add(hoveredNodeId)
TraceStart ==
  /\ pc = "trace"
  /\ isTraceMode /\ hoveredNodeId # Null
  /\ traceQueue' = <<hoveredNodeId>>
  /\ enqueues' = <<hoveredNodeId>>
  /\ highlightedNodes' = {hoveredNodeId}
  /\ highlightedEdges' = {}
  /\ pc' = "tracing"
  /\ UNCHANGED <<nodes, edges, state, flowLocals, rule, edge, result, hostVars>>
  /\ UNCHANGED <<isSimulating, isTraceMode, hoveredNodeId, incoming>>

\* nodeId = queue.shift(); incoming = incomingEdges.get(nodeId) || []
TracePop ==
  /\ pc = "tracing"
  /\ traceQueue # <<>>
  /\ incoming' = IncomingEdges(edges, Head(traceQueue))
  /\ traceQueue' = Tail(traceQueue)
  /\ pc' = "incoming"
  /\ UNCHANGED <<nodes, edges, state, flowLocals, rule, edge, result, hostVars>>
  /\ UNCHANGED <<isSimulating, isTraceMode, hoveredNodeId, highlightedNodes,
                 highlightedEdges, enqueues>>

\* One iteration of `for (const edge of incoming)`.
TraceEdge ==
  /\ pc = "incoming"
  /\ incoming # <<>>
  /\ LET e == Head(incoming)
     IN /\ highlightedEdges' = HighlightEdge(highlightedEdges, highlightedNodes, e)
        /\ IF NotHighlighted(highlightedNodes, e.source)
           THEN /\ highlightedNodes' = highlightedNodes \cup {e.source}
                /\ traceQueue' = Append(traceQueue, e.source)
                /\ enqueues' = Append(enqueues, e.source)
           ELSE UNCHANGED <<highlightedNodes, traceQueue, enqueues>>
  /\ incoming' = Tail(incoming)
  /\ UNCHANGED <<nodes, edges, state, flowLocals, rule, edge, result, pc, hostVars>>
  /\ UNCHANGED <<isSimulating, isTraceMode, hoveredNodeId>>

\* The for loop is exhausted: back to the while test.
TraceNext ==
  /\ pc = "incoming"
  /\ incoming = <<>>
  /\ pc' = "tracing"
  /\ UNCHANGED <<nodes, edges, state, flowLocals, rule, edge, result, traceVars, hostVars>>

\* queue.length = 0: return { highlightedNodes, highlightedEdges }
TraceReturn ==
  /\ pc = "tracing"
  /\ traceQueue = <<>>
  /\ pc' = "traced"
  /\ UNCHANGED <<nodes, edges, state, flowLocals, rule, edge, result, traceVars, hostVars>>

\* The same computation as a function of the memo's dependencies
\* [isTraceMode, hoveredNodeId, edges].
RECURSIVE TraceEdges(_, _, _, _)
TraceEdges(inc, q, hn, he) ==
  IF inc = <<>> THEN [queue |-> q, highlightedNodes |-> hn, highlightedEdges |-> he]
  ELSE LET e == Head(inc)
           fresh == NotHighlighted(hn, e.source)
       IN TraceEdges(Tail(inc),
                     IF fresh THEN Append(q, e.source) ELSE q,
                     IF fresh THEN hn \cup {e.source} ELSE hn,
                     HighlightEdge(he, hn, e))

RECURSIVE TraceLoop(_, _, _, _)
TraceLoop(es, q, hn, he) ==
  IF q = <<>> THEN [highlightedNodes |-> hn, highlightedEdges |-> he]
  ELSE LET r == TraceEdges(IncomingEdges(es, Head(q)), Tail(q), hn, he)
       IN TraceLoop(es, r.queue, r.highlightedNodes, r.highlightedEdges)

traceHighlight(traceMode, hovered, es) ==
  IF ~traceMode \/ hovered = Null
  THEN [highlightedNodes |-> {}, highlightedEdges |-> {}]
  ELSE TraceLoop(es, <<hovered>>, {hovered}, {})

\* The hook's state when the memo runs: trace mode and hovered node, and the
\* simulation switch with its context.
TraceModes ==
  {<<FALSE, Null>>, <<FALSE, "A">>, <<TRUE, Null>>, <<TRUE, "A">>, <<TRUE, "B">>}

SimulationModes ==
  {<<FALSE, EmptyContext>>} \cup {<<TRUE, c>> : c \in FlowContexts \ {EmptyContext}}

InitTrace ==
  /\ nodes = <<Node("A"), Node("B"), Node("C")>>
  /\ edges \in EdgeLists
  /\ \E m \in TraceModes : isTraceMode = m[1] /\ hoveredNodeId = m[2]
  /\ \E m \in SimulationModes : isSimulating = m[1] /\ state = m[2]
  /\ pc = "trace"
  /\ highlightedNodes = {}
  /\ highlightedEdges = {}
  /\ traceQueue = <<>>
  /\ incoming = <<>>
  /\ enqueues = <<>>
  /\ FlowIdle
  /\ HostIdle
  /\ rule = IdleRule
  /\ edge = IdleEdge
  /\ result = Undefined

NextTrace ==
  \/ TraceInactive
  \/ TraceStart
  \/ TracePop
  \/ TraceEdge
  \/ TraceNext
  \/ TraceReturn

SpecTrace == InitTrace /\ [][NextTrace]_vars

\* ---------------------------------------------------------------------------
\* Properties of the ancestor trace
\* ---------------------------------------------------------------------------

Tracing == isTraceMode /\ hoveredNodeId # Null

\* The node ids with a directed edge into the set S.
SourcesInto(S) == {edges[i].source : i \in {j \in DOMAIN edges : edges[j].target \in S}}

RECURSIVE BackwardClosure(_)
BackwardClosure(S) ==
  LET step == S \cup SourcesInto(S)
  IN IF step = S THEN S ELSE BackwardClosure(step)

\* The nodes from which a directed path of one or more edges leads to f.
Ancestors(f) == BackwardClosure(SourcesInto({f}))

\* C16: with trace mode on and a focus node f, the returned highlightedNodes
\* are f together with every node that has a directed path of one or more
\* edges to f, and highlightedEdges are exactly the edges whose target is
\* highlighted, so both endpoints of a highlighted edge are highlighted; a
\* focus without incoming edges gives ({f}, {}).
C16_TraceIsAncestorClosure ==
  (pc = "traced" /\ Tracing) =>
    /\ highlightedNodes = {hoveredNodeId} \cup Ancestors(hoveredNodeId)
    /\ highlightedEdges =
         {edges[i].id : i \in {j \in DOMAIN edges :
                                 edges[j].target \in {hoveredNodeId} \cup Ancestors(hoveredNodeId)}}
    /\ \A i \in DOMAIN edges :
         edges[i].id \in highlightedEdges =>
           edges[i].source \in highlightedNodes /\ edges[i].target \in highlightedNodes
    /\ hoveredNodeId \notin TargetIds =>
         highlightedNodes = {hoveredNodeId} /\ highlightedEdges = {}

\* The chain C -> B -> A traced from A: all three nodes and both edges.
C16_Witness ==
  /\ pc = "traced"
  /\ Tracing
  /\ hoveredNodeId = "A"
  /\ Len(edges) = 2
  /\ edges[1].source = "B" /\ edges[1].target = "A"
  /\ edges[2].source = "C" /\ edges[2].target = "B"
  /\ highlightedNodes = {"A", "B", "C"}
  /\ highlightedEdges = {edges[1].id, edges[2].id}

\* The same edges (ids, sources, targets, order) carrying other rule data.
WithData(es, d) == [i \in DOMAIN es |-> Edge(es[i].id, es[i].source, es[i].target, d[i])]

\* C17: the trace is connectivity-only: whatever the simulation context is and
\* whether or not simulation is active, the returned sets are those computed
\* from the focus and the same edges under any other assignment of rules.
C17_ConnectivityOnly ==
  pc = "traced" =>
    \A d \in [DOMAIN edges -> FlowEdgeData] :
      traceHighlight(isTraceMode, hoveredNodeId, WithData(edges, d))
        = [highlightedNodes |-> highlightedNodes, highlightedEdges |-> highlightedEdges]

\* Simulation is active and the only edge into the focus has a failing rule:
\* the edge and its source are highlighted all the same.
C17_Witness ==
  /\ pc = "traced"
  /\ Tracing
  /\ isSimulating
  /\ \E i \in DOMAIN edges :
       /\ edges[i].target = hoveredNodeId
       /\ edges[i].source # hoveredNodeId
       /\ ~evaluateEdgeRules(edges[i], state)
       /\ edges[i].id \in highlightedEdges
       /\ edges[i].source \in highlightedNodes

\* A node without incoming edges.
IsRoot(n) == n \notin TargetIds

\* n has a backward path (of zero or more edges) that ends at a root.
LeadsBackToRoot(n) == \E r \in BackwardClosure({n}) : IsRoot(r)

\* No directed cycle: no node is its own ancestor.
Acyclic == \A i \in DOMAIN edges : edges[i].source \notin Ancestors(edges[i].source)

C19_TraceTerminates ==
  /\ pc = "traced" \/ ENABLED NextTrace
  /\ NoDuplicates(enqueues)
  /\ Len(enqueues) <= Len(nodes)
  /\ Len(traceQueue) <= Len(enqueues)
  /\ \A i \in DOMAIN enqueues : enqueues[i] \in highlightedNodes

\* A focus with a self-loop and a further incoming edge
\* has been traced to the end with the focus enqueued once, first.
C19_Witness ==
  /\ pc = "traced"
  /\ Tracing
  /\ hoveredNodeId \in Ancestors(hoveredNodeId)
  /\ \E i \in DOMAIN edges : edges[i].source = edges[i].target
  /\ \E i \in DOMAIN edges : edges[i].source # edges[i].target
  /\ Len(enqueues) = 2
  /\ enqueues[1] = hoveredNodeId

\* ---------------------------------------------------------------------------
\* SpecCalls: any one of the five computations, for properties common to all
\* ---------------------------------------------------------------------------

InitCalls ==
  \/ Init
  \/ InitRule
  \/ InitEdgeRules
  \/ InitDiscover
  \/ InitTrace

NextCalls ==
  \/ Next
  \/ NextRule
  \/ NextEdgeRules
  \/ NextDiscover
  \/ NextTrace

SpecCalls == InitCalls /\ [][NextCalls]_vars

\* C20: no step of evaluateRule, evaluateEdgeRules, evaluateFlow,
\* discoverConditions or the ancestor trace changes an input: the node list,
\* the edge list with every edge's rule list (order included), the rule or
\* edge passed in, and the simulation context stay as they were.
C20_InputsUnchanged ==
  [][/\ nodes' = nodes
     /\ edges' = edges
     /\ rule' = rule
     /\ edge' = edge
     /\ state' = state]_vars

\* discoverConditions has returned its entries sorted by name ("age" before
\* "role") for edges whose first rule is on "role" and a later one on "age":
\* the input still holds the rules in their original order.
C20_Witness ==
  /\ pc = "discovered"
  /\ Len(result) = 2
  /\ result[1].name = "age"
  /\ \E i \in DOMAIN edges :
       /\ Len(RulesOf(edges[i])) >= 2
       /\ RulesOf(edges[i])[1].condition = "role"
       /\ RulesOf(edges[i])[2].condition = "age"

\* ---------------------------------------------------------------------------
\* Further properties of the traversal of evaluateFlow
\* ---------------------------------------------------------------------------

\* The edge of the list with the given id.
EdgeById(id) == edges[CHOOSE i \in DOMAIN edges : edges[i].id = id]

\* C24: at every step of the traversal the ids in the queue and in visited
\* are in reachableNodes; so the source of every edge about to be evaluated
\* is reachable, and the validity recorded for an evaluated edge is the
\* result of its rules.
C24_TraversalWithinReachable ==
  /\ \A i \in DOMAIN queue : queue[i] \in reachableNodes
  /\ visited \subseteq reachableNodes
  /\ pc = "edges" => \A i \in DOMAIN nodeEdges : nodeEdges[i].source \in reachableNodes
  /\ pc \in {"loop", "edges"} =>
       \A k \in DOMAIN evaluations :
         /\ EdgeById(evaluations[k]).source \in reachableNodes
         /\ validEdges[evaluations[k]] = evaluateEdgeRules(EdgeById(evaluations[k]), state)

\* In the middle of the traversal: one edge was recorded invalid because its
\* rule fails although its source is reachable, another edge is still to be
\* evaluated, and a node waits in the queue.
C24_Witness ==
  /\ pc = "edges"
  /\ queue # <<>>
  /\ visited # {}
  /\ nodeEdges # <<>>
  /\ \E k \in DOMAIN evaluations :
       /\ validEdges[evaluations[k]] = FALSE
       /\ EdgeById(evaluations[k]).source \in reachableNodes

\* ---------------------------------------------------------------------------
\* importFromJson (src/utils/exportImport.ts): the content of the file after
\* JSON.parse, and the validation of it
\* ---------------------------------------------------------------------------

\* JSON.parse either throws a SyntaxError or yields a value.
Unparsable == [parses |-> FALSE]
Parsed(v) == [parses |-> TRUE, graph |-> v]

\* The parsed values the validation tells apart.
JsonNull == [kind |-> "null"]
JsonNumber == [kind |-> "number"]
JsonUndefined == [kind |-> "undefined"]
JsonArray(items) == [kind |-> "array", items |-> items]
JsonGraph(ns, es) == [kind |-> "object", nodes |-> ns, edges |-> es]

\* A node object: id and data.label are values (Undefined when the property
\* is missing), position is an object or missing, data is an object or missing.
JsonNode(id, position, data, label) ==
  [kind |-> "object", id |-> id, position |-> position, data |-> data, label |-> label]

\* An edge object: id, source and target are values (Undefined when missing).
JsonEdge(id, source, target) ==
  [kind |-> "object", id |-> id, source |-> source, target |-> target]

\* !v is false
Truthy(v) ==
  CASE v.type = "string" -> v.str # ""
    [] v.type = "number" -> v.num # 0
    [] v.type = "boolean" -> v.bool
    [] v.type = "undefined" -> FALSE
    [] OTHER -> TRUE

\* Array.isArray(graph.nodes), Array.isArray(graph.edges): a property read on
\* a number gives undefined.
PropertyOf(graph, name) ==
  IF graph.kind = "object" THEN graph[name] ELSE JsonUndefined

IsArray(v) == v.kind = "array"

\* !node.id || !node.position || node.data?.label === undefined
NodeInvalid(node) ==
  \/ ~Truthy(node.id)
  \/ node.position # "object"
  \/ (IF node.data = "object" THEN node.label ELSE Undefined) = Undefined

\* Variant: the edge check asks for the id only.
EdgeInvalidIdOnly(e) == ~Truthy(e.id)

\* !edge.id || !edge.source || !edge.target
EdgeInvalid(e) == ~Truthy(e.id) \/ ~Truthy(e.source) \/ ~Truthy(e.target)

Rejected(message) == [status |-> "rejected", error |-> message]
Resolved(graph) == [status |-> "resolved", graph |-> graph]

\* One validation loop, given the indexes of the items that fail: the outcome
\* at the first of them. A property read on null throws a TypeError.
FirstFailure(items, bad, message) ==
  IF bad = {} THEN "none"
  ELSE LET i == CHOOSE j \in bad : \A k \in bad : j <= k
       IN IF items[i].kind = "null" THEN "TypeError" ELSE message

\* importFromJson(file): the promise resolves with the graph or rejects with
\* an Error.
importFromJson(f) ==
  IF ~f.parses THEN Rejected("SyntaxError")
  ELSE IF f.graph.kind = "null" THEN Rejected("TypeError")
  ELSE
    LET ns == PropertyOf(f.graph, "nodes")
        es == PropertyOf(f.graph, "edges")
    IN IF ~IsArray(ns) \/ ~IsArray(es)
       THEN Rejected("Invalid graph structure: missing nodes or edges array")
       ELSE
         LET badNodes == {i \in DOMAIN ns.items :
                            ns.items[i].kind = "null" \/ NodeInvalid(ns.items[i])}
             badEdges == {i \in DOMAIN es.items :
                            es.items[i].kind = "null" \/ EdgeInvalid(es.items[i])}
             nodeFailure == FirstFailure(ns.items, badNodes,
                                         "Invalid node structure: missing required fields")
             edgeFailure == FirstFailure(es.items, badEdges,
                                         "Invalid edge structure: missing required fields")
         IN IF nodeFailure # "none" THEN Rejected(nodeFailure)
            ELSE IF edgeFailure # "none" THEN Rejected(edgeFailure)
            ELSE Resolved(f.graph)

\* The nodes and edges of a resolved graph as the host stores them (the model
\* keeps the id of a node, and the id, endpoints and rules of an edge).
GraphNodes(g) == [i \in DOMAIN g.nodes.items |-> Node(g.nodes.items[i].id.str)]
GraphEdges(g) ==
  [i \in DOMAIN g.edges.items |->
     Edge(g.edges.items[i].id.str, g.edges.items[i].source.str,
          g.edges.items[i].target.str, EdgeData(<<>>))]

\* ---------------------------------------------------------------------------
\* The host graph store: the operations of useFlowGraph (src/unnamed/part_000)
\* ---------------------------------------------------------------------------

MaxHostEdges == 2

\* nanoid() yields an id not in use: one of a pool of names.
HostNodeIds == {"A", "B"}
HostEdgeIds == {EdgeIds[i] : i \in 1..MaxHostEdges}

\* The variables no host operation writes.
hostFrame == <<pc, flowLocals, rule, edge, highlightedNodes, highlightedEdges,
               traceQueue, incoming, enqueues>>

Op(name, ids) == [name |-> name, ids |-> ids]

CurrentNodeIds == {nodes[i].id : i \in DOMAIN nodes}
CurrentEdgeIds == {edges[i].id : i \in DOMAIN edges}

\* addNode(label, position) without a parent
AddNode ==
  \E id \in HostNodeIds \ CurrentNodeIds :
    /\ nodes' = Append(nodes, Node(id))
    /\ lastOp' = Op("addNode", {id})
    /\ UNCHANGED <<edges, state, result, traceVars, selectedNodeId, selectedEdgeId,
                   file, hostFrame>>

\* addChildNode(parentId): returns when the parent is not a node, else
\* addNode with the parent, which appends the node and the edge to it.
AddChildNode ==
  \E parentId \in CurrentNodeIds, id \in HostNodeIds \ CurrentNodeIds,
     edgeId \in HostEdgeIds \ CurrentEdgeIds :
    /\ nodes' = Append(nodes, Node(id))
    /\ edges' = Append(edges, Edge(edgeId, parentId, id, EdgeData(<<>>)))
    /\ lastOp' = Op("addChildNode", {id})
    /\ UNCHANGED <<state, result, traceVars, selectedNodeId, selectedEdgeId,
                   file, hostFrame>>

\* eds.filter(edge => !idsSet.has(edge.source) && !idsSet.has(edge.target))
EdgesWithout(es, ids) == SelectSeq(es, LAMBDA e : e.source \notin ids /\ e.target \notin ids)

\* if (selected && idsSet.has(selected)) setSelected(null)
ClearIfDeleted(selected, ids) == IF selected \in ids THEN Null ELSE selected

\* deleteNode(nodeId)
DeleteNode ==
  \E id \in CurrentNodeIds :
    /\ nodes' = SelectSeq(nodes, LAMBDA n : n.id # id)
    /\ edges' = EdgesWithout(edges, {id})
    /\ selectedNodeId' = ClearIfDeleted(selectedNodeId, {id})
    /\ lastOp' = Op("deleteNode", {id})
    /\ UNCHANGED <<state, result, traceVars, selectedEdgeId, file, hostFrame>>

\* deleteNodes(nodeIds)
DeleteNodes ==
  \E ids \in SUBSET CurrentNodeIds :
    /\ nodes' = SelectSeq(nodes, LAMBDA n : n.id \notin ids)
    /\ edges' = EdgesWithout(edges, ids)
    /\ selectedNodeId' = ClearIfDeleted(selectedNodeId, ids)
    /\ lastOp' = Op("deleteNodes", ids)
    /\ UNCHANGED <<state, result, traceVars, selectedEdgeId, file, hostFrame>>

\* deleteEdge(edgeId)
DeleteEdge ==
  \E id \in CurrentEdgeIds :
    /\ edges' = SelectSeq(edges, LAMBDA e : e.id # id)
    /\ selectedEdgeId' = ClearIfDeleted(selectedEdgeId, {id})
    /\ lastOp' = Op("deleteEdge", {id})
    /\ UNCHANGED <<nodes, state, result, traceVars, selectedNodeId, file, hostFrame>>

\* addEdge(newEdge, eds) of the flow library: the list is returned as it is
\* when it holds an edge of the same connection, else with the edge appended.
AddEdge(newEdge, eds) ==
  IF \E i \in DOMAIN eds : eds[i].source = newEdge.source /\ eds[i].target = newEdge.target
  THEN eds
  ELSE Append(eds, newEdge)

\* onConnect(connection), the connection drawn between two nodes
OnConnect ==
  \E source \in CurrentNodeIds, target \in CurrentNodeIds,
     id \in HostEdgeIds \ CurrentEdgeIds :
    /\ edges' = AddEdge(Edge(id, source, target, EdgeData(<<>>)), edges)
    /\ lastOp' = Op("onConnect", {id})
    /\ UNCHANGED <<nodes, state, result, traceVars, selectedNodeId, selectedEdgeId,
                   file, hostFrame>>

\* Variant: selecting does not deselect the other kind.
KeepOther(id, other) == other

\* if (id) setOther(null)
DeselectOther(id, other) == IF id # Null THEN Null ELSE other

\* selectNode(nodeId)
SelectNode ==
  \E id \in CurrentNodeIds \cup {Null} :
    /\ selectedNodeId' = id
    /\ selectedEdgeId' = DeselectOther(id, selectedEdgeId)
    /\ lastOp' = Op("selectNode", {id})
    /\ UNCHANGED <<nodes, edges, state, result, traceVars, file, hostFrame>>

\* selectEdge(edgeId)
SelectEdge ==
  \E id \in CurrentEdgeIds \cup {Null} :
    /\ selectedEdgeId' = id
    /\ selectedNodeId' = DeselectOther(id, selectedNodeId)
    /\ lastOp' = Op("selectEdge", {id})
    /\ UNCHANGED <<nodes, edges, state, result, traceVars, file, hostFrame>>

\* { ...prev, [condition]: value }
WithBinding(st, condition, value) ==
  [k \in DOMAIN st \cup {condition} |-> IF k = condition THEN value ELSE st[k]]

\* The copy of prev with the property deleted.
WithoutBinding(st, condition) == [k \in DOMAIN st \ {condition} |-> st[k]]

\* Variant: importGraph and clearGraph leave the simulation running.
SimulationKept(sim) == sim

\* setIsSimulating(false)
SimulationOff(sim) == FALSE

\* importGraph(graph), given the node and edge lists of the graph
ImportGraph(ns, es) ==
  /\ nodes' = ns
  /\ edges' = es
  /\ selectedNodeId' = Null
  /\ selectedEdgeId' = Null
  /\ state' = EmptyContext
  /\ isSimulating' = SimulationOff(isSimulating)

\* clearGraph()
ClearGraph ==
  /\ nodes' = <<>>
  /\ edges' = <<>>
  /\ selectedNodeId' = Null
  /\ selectedEdgeId' = Null
  /\ state' = EmptyContext
  /\ isSimulating' = SimulationOff(isSimulating)
  /\ lastOp' = Op("clearGraph", {})
  /\ UNCHANGED <<result, file, hostFrame, isTraceMode, hoveredNodeId>>

\* `await importFromJson(file)` does not throw
Accepted(outcome) == outcome.status = "resolved"

\* handleFileChange of the toolbar for a file with the given content:
\* importGraph on the resolved graph, else the alert.
HandleFileChange(f) ==
  LET outcome == importFromJson(f) IN
    /\ file' = f
    /\ result' = outcome
    /\ lastOp' = Op("handleFileChange", {})
    /\ IF Accepted(outcome)
       THEN ImportGraph(GraphNodes(f.graph), GraphEdges(f.graph))
       ELSE UNCHANGED <<nodes, edges, selectedNodeId, selectedEdgeId, state, isSimulating>>
    /\ UNCHANGED <<hostFrame, isTraceMode, hoveredNodeId>>

\* toggleSimulation()
ToggleSimulation ==
  /\ isSimulating' = ~isSimulating
  /\ lastOp' = Op("toggleSimulation", {})
  /\ UNCHANGED <<nodes, edges, state, result, selectedNodeId, selectedEdgeId, file,
                 hostFrame, isTraceMode, hoveredNodeId>>

\* updateSimulationValue(condition, value)
UpdateSimulationValue(condition, value) ==
  /\ state' = WithBinding(state, condition, value)
  /\ lastOp' = Op("updateSimulationValue", {condition})
  /\ UNCHANGED <<nodes, edges, result, selectedNodeId, selectedEdgeId, file,
                 hostFrame, isSimulating, isTraceMode, hoveredNodeId>>

\* clearSimulationValue(condition)
ClearSimulationValue(condition) ==
  /\ state' = WithoutBinding(state, condition)
  /\ lastOp' = Op("clearSimulationValue", {condition})
  /\ UNCHANGED <<nodes, edges, result, selectedNodeId, selectedEdgeId, file,
                 hostFrame, isSimulating, isTraceMode, hoveredNodeId>>

\* resetSimulation()
ResetSimulation ==
  /\ state' = EmptyContext
  /\ lastOp' = Op("resetSimulation", {})
  /\ UNCHANGED <<nodes, edges, result, selectedNodeId, selectedEdgeId, file,
                 hostFrame, isSimulating, isTraceMode, hoveredNodeId>>

\* ---------------------------------------------------------------------------
\* SpecHost: the graph store from the empty graph, under its operations
\* ---------------------------------------------------------------------------

ValidNode(id) == JsonNode(Str(id), "object", "object", Str("New Feature"))

\* Files offered to the import: a graph of two nodes and an edge, a graph
\* whose edge names a node that is not in it, a node without a position, and
\* a file that is not JSON.
HostFiles ==
  { Parsed(JsonGraph(JsonArray(<<ValidNode("A"), ValidNode("B")>>),
                     JsonArray(<<JsonEdge(Str("e1"), Str("A"), Str("B"))>>))),
    Parsed(JsonGraph(JsonArray(<<ValidNode("A")>>),
                     JsonArray(<<JsonEdge(Str("e1"), Str("A"), Str("X"))>>))),
    Parsed(JsonGraph(JsonArray(<<JsonNode(Str("A"), "undefined", "object", Str("New Feature"))>>),
                     JsonArray(<<>>))),
    Unparsable }

InitHost ==
  /\ nodes = <<>>
  /\ edges = <<>>
  /\ state = EmptyContext
  /\ pc = "host"
  /\ FlowIdle
  /\ TraceIdle
  /\ HostIdle
  /\ rule = IdleRule
  /\ edge = IdleEdge
  /\ result = Undefined

NextHost ==
  \/ AddNode
  \/ AddChildNode
  \/ OnConnect
  \/ DeleteNode
  \/ DeleteNodes
  \/ DeleteEdge
  \/ SelectNode
  \/ SelectEdge
  \/ \E f \in HostFiles : HandleFileChange(f)
  \/ ClearGraph

SpecHost == InitHost /\ [][NextHost]_vars

\* ---------------------------------------------------------------------------
\* Properties of the graph store
\* ---------------------------------------------------------------------------

\* C21: in every state reached from the empty graph by addNode, addChildNode,
\* onConnect, deleteNode, deleteNodes, deleteEdge and the import of an
\* accepted file, the source and the target of every edge are ids of nodes
\* of the node list.
C21_NoDanglingEdges ==
  \A i \in DOMAIN edges :
    /\ \E n \in DOMAIN nodes : nodes[n].id = edges[i].source
    /\ \E n \in DOMAIN nodes : nodes[n].id = edges[i].target

AtMostOneSelected == selectedNodeId = Null \/ selectedEdgeId = Null

MaxFileItems == 2

SeqsUpTo(S, n) == UNION {[1..k -> S] : k \in 0..n}

\* Node and edge objects with and without the fields the validation reads.
NodeItems ==
  {JsonNull} \cup
  {JsonNode(id, f[1], f[2], f[3]) :
     id \in {Undefined, Str(""), Str("A")},
     f \in {<<"object", "object", Str("New Feature")>>,
            <<"undefined", "object", Str("New Feature")>>,
            <<"object", "undefined", Undefined>>,
            <<"object", "object", Undefined>>}}

EdgeItems ==
  {JsonNull} \cup
  {JsonEdge(id, source, target) :
     id \in {Undefined, Str("e1")},
     source \in {Undefined, Str("A")},
     target \in {Undefined, Str(""), Str("X")}}

\* A nodes or edges property that is missing, no array, empty, or well formed.
FewNodeFields == {JsonUndefined, JsonNumber, JsonArray(<<>>), JsonArray(<<ValidNode("A")>>)}
FewEdgeFields ==
  {JsonUndefined, JsonNumber, JsonArray(<<>>),
   JsonArray(<<JsonEdge(Str("e1"), Str("A"), Str("A"))>>)}

FileContents ==
  {Unparsable, Parsed(JsonNull), Parsed(JsonNumber)}
    \cup {Parsed(JsonGraph(JsonArray(ns), es)) :
            ns \in SeqsUpTo(NodeItems, MaxFileItems), es \in FewEdgeFields}
    \cup {Parsed(JsonGraph(ns, JsonArray(es))) :
            ns \in FewNodeFields, es \in SeqsUpTo(EdgeItems, MaxFileItems)}

\* States of the store before the operation: the initial one, and a graph
\* A -> B with a rule, a selection, a simulation and a trace going on.
HostStates ==
  { [nodes |-> <<>>, edges |-> <<>>, selectedNodeId |-> Null, selectedEdgeId |-> Null,
     state |-> EmptyContext, isSimulating |-> FALSE, isTraceMode |-> FALSE,
     hoveredNodeId |-> Null],
    [nodes |-> <<Node("A"), Node("B")>>,
     edges |-> <<Edge("e1", "A", "B", EdgeData(<<RoleIsAdmin>>))>>,
     selectedNodeId |-> "A", selectedEdgeId |-> Null,
     state |-> WithBinding(EmptyContext, "role", Str("admin")), isSimulating |-> TRUE,
     isTraceMode |-> TRUE, hoveredNodeId |-> "B"],
    [nodes |-> <<Node("A"), Node("B")>>,
     edges |-> <<Edge("e1", "A", "B", EdgeData(<<RoleIsAdmin>>))>>,
     selectedNodeId |-> Null, selectedEdgeId |-> "e1",
     state |-> WithBinding(EmptyContext, "role", Str("guest")), isSimulating |-> FALSE,
     isTraceMode |-> FALSE, hoveredNodeId |-> Null] }

InitImport ==
  /\ \E h \in HostStates :
       /\ nodes = h.nodes
       /\ edges = h.edges
       /\ selectedNodeId = h.selectedNodeId
       /\ selectedEdgeId = h.selectedEdgeId
       /\ state = h.state
       /\ isSimulating = h.isSimulating
       /\ isTraceMode = h.isTraceMode
       /\ hoveredNodeId = h.hoveredNodeId
  /\ file \in FileContents
  /\ lastOp = NoOp
  /\ pc = "host"
  /\ highlightedNodes = {}
  /\ highlightedEdges = {}
  /\ traceQueue = <<>>
  /\ incoming = <<>>
  /\ enqueues = <<>>
  /\ FlowIdle
  /\ rule = IdleRule
  /\ edge = IdleEdge
  /\ result = Undefined

\* The file is chosen in the toolbar.
ImportFile == lastOp = NoOp /\ HandleFileChange(file)

\* Clear is chosen (and confirmed) in the toolbar.
HandleClear == lastOp = NoOp /\ ClearGraph

NextImport ==
  \/ ImportFile
  \/ HandleClear

SpecImport == InitImport /\ [][NextImport]_vars

\* ---------------------------------------------------------------------------
\* Properties of the import and of clearGraph
\* ---------------------------------------------------------------------------

\* The content has the required structure: nodes and edges are arrays, every
\* node is an object with an id, a position and a data.label, every edge is
\* an object with an id, a source and a target.
HasRequiredFields(f) ==
  /\ f.parses
  /\ f.graph.kind = "object"
  /\ f.graph.nodes.kind = "array"
  /\ f.graph.edges.kind = "array"
  /\ \A i \in DOMAIN f.graph.nodes.items :
       LET n == f.graph.nodes.items[i] IN
         /\ n.kind = "object"
         /\ n.id # Undefined
         /\ n.position = "object"
         /\ n.data = "object" /\ n.label # Undefined
  /\ \A i \in DOMAIN f.graph.edges.items :
       LET e == f.graph.edges.items[i] IN
         /\ e.kind = "object"
         /\ e.id # Undefined /\ e.source # Undefined /\ e.target # Undefined

\* C23: importFromJson resolves only with content of the required structure;
\* for any other content (unparsable JSON included) it rejects with an Error,
\* importGraph is not invoked, and nodes, edges, the selection and the
\* simulation state stay as they were.
C23_ImportValidates ==
  [][lastOp'.name = "handleFileChange" =>
       /\ result'.status \in {"resolved", "rejected"}
       /\ result'.status = "resolved" => HasRequiredFields(file')
       /\ ~HasRequiredFields(file') => result'.status = "rejected" /\ result'.error # ""
       /\ result'.status = "rejected" =>
            /\ nodes' = nodes
            /\ edges' = edges
            /\ selectedNodeId' = selectedNodeId
            /\ selectedEdgeId' = selectedEdgeId
            /\ state' = state
            /\ isSimulating' = isSimulating]_vars

\* A file whose only edge has no target was rejected while a graph with a
\* selected node was being simulated: the store still holds all of it.
C23_Witness ==
  /\ lastOp.name = "handleFileChange"
  /\ result.status = "rejected"
  /\ file.parses
  /\ file.graph.kind = "object"
  /\ file.graph.edges.kind = "array"
  /\ Len(file.graph.edges.items) = 1
  /\ file.graph.edges.items[1] = JsonEdge(Str("e1"), Str("A"), Undefined)
  /\ file.graph.nodes = JsonArray(<<ValidNode("A")>>)
  /\ Len(nodes) = 2
  /\ selectedNodeId = "A"
  /\ isSimulating

\* The flowEvaluation memo of useFlowGraph: empty while simulation is off.
flowEvaluation(sim, ns, es, st) ==
  IF ~sim THEN [reachableNodes |-> {}, validEdges |-> EmptyMap]
  ELSE evaluateFlow(ns, es, st)

\* The step is an import that was accepted, or a clearGraph.
Imported == lastOp'.name = "handleFileChange" /\ result'.status = "resolved"
Cleared == lastOp'.name = "clearGraph"

\* C29: importGraph and clearGraph end with no selected node, no selected
\* edge, an empty context and simulation off, so that the flow result is
\* empty; importGraph leaves the nodes and edges of the file, clearGraph none;
\* trace mode and the hovered node are as before.
C29_ImportAndClearReset ==
  [][(Imported \/ Cleared) =>
       /\ selectedNodeId' = Null
       /\ selectedEdgeId' = Null
       /\ DOMAIN state' = {}
       /\ isSimulating' = FALSE
       /\ flowEvaluation(isSimulating', nodes', edges', state').reachableNodes = {}
       /\ DOMAIN flowEvaluation(isSimulating', nodes', edges', state').validEdges = {}
       /\ Imported =>
            /\ Len(nodes') = Len(file'.graph.nodes.items)
            /\ \A i \in DOMAIN nodes' : Str(nodes'[i].id) = file'.graph.nodes.items[i].id
            /\ Len(edges') = Len(file'.graph.edges.items)
            /\ \A i \in DOMAIN edges' :
                 /\ Str(edges'[i].id) = file'.graph.edges.items[i].id
                 /\ Str(edges'[i].source) = file'.graph.edges.items[i].source
                 /\ Str(edges'[i].target) = file'.graph.edges.items[i].target
       /\ Cleared => nodes' = <<>> /\ edges' = <<>>
       /\ isTraceMode' = isTraceMode
       /\ hoveredNodeId' = hoveredNodeId]_vars

\* A graph that was being simulated and traced has been cleared: trace mode
\* and the hovered node are still set.
C29_Witness ==
  /\ lastOp.name = "clearGraph"
  /\ nodes = <<>>
  /\ ~isSimulating
  /\ isTraceMode
  /\ hoveredNodeId = "B"

\* ---------------------------------------------------------------------------
\* SpecSim: rules and simulation context of a graph under the operations of
\* the rule panel and of the simulation panel
\* ---------------------------------------------------------------------------

\* A rule as the host stores it: with the id nanoid(6) gave it.
HostRule(id, r) ==
  [id |-> id, condition |-> r.condition, operator |-> r.operator, value |-> r.value]

RuleIds == {"r1", "r2"}

CurrentRuleIds ==
  UNION {{RulesOf(edges[i])[j].id : j \in DOMAIN RulesOf(edges[i])} : i \in DOMAIN edges}

\* Variant: the new rule replaces the rules of the edge.
AddRuleReplacing(es, edgeId, r) ==
  [i \in DOMAIN es |->
     IF es[i].id = edgeId
     THEN Edge(es[i].id, es[i].source, es[i].target, EdgeData(<<r>>))
     ELSE es[i]]

\* eds.map(edge => edge.id === edgeId
\*   ? { ...edge, data: { ...edge.data, rules: [...(edge.data?.rules || []), rule] } } : edge)
AddRule(es, edgeId, r) ==
  [i \in DOMAIN es |->
     IF es[i].id = edgeId
     THEN Edge(es[i].id, es[i].source, es[i].target, EdgeData(Append(RulesOf(es[i]), r)))
     ELSE es[i]]

\* The same map with rules.filter(rule => rule.id !== ruleId)
WithoutRule(es, edgeId, ruleId) ==
  [i \in DOMAIN es |->
     IF es[i].id = edgeId
     THEN Edge(es[i].id, es[i].source, es[i].target,
               EdgeData(SelectSeq(RulesOf(es[i]), LAMBDA x : x.id # ruleId)))
     ELSE es[i]]

\* The rules the rule panel offers: a gate on role, and one on a condition
\* named like a property of Object.prototype.
SimRules == {Rule("role", "is", Str("admin")), Rule("constructor", "is", Str("admin"))}

\* addRuleToEdge(edgeId, rule)
AddRuleToEdge ==
  \E edgeId \in CurrentEdgeIds, r \in SimRules, id \in RuleIds \ CurrentRuleIds :
    /\ edges' = AddRule(edges, edgeId, HostRule(id, r))
    /\ lastOp' = Op("addRuleToEdge", {edgeId})
    /\ UNCHANGED <<nodes, state, result, traceVars, selectedNodeId, selectedEdgeId,
                   file, hostFrame>>

\* removeRule(edgeId, ruleId)
RemoveRule ==
  \E i \in DOMAIN edges :
    \E j \in DOMAIN RulesOf(edges[i]) :
      /\ edges' = WithoutRule(edges, edges[i].id, RulesOf(edges[i])[j].id)
      /\ lastOp' = Op("removeRule", {edges[i].id})
      /\ UNCHANGED <<nodes, state, result, traceVars, selectedNodeId, selectedEdgeId,
                     file, hostFrame>>

\* The graphs whose rules and simulation are edited: a chain, a fork, two
\* roots into one node, a cycle without a root, and a self-loop.
SimGraphs ==
  { [nodes |-> <<Node("A"), Node("B"), Node("C")>>,
     edges |-> <<Edge("e1", "A", "B", EdgeData(<<>>)), Edge("e2", "B", "C", NoData)>>],
    [nodes |-> <<Node("A"), Node("B"), Node("C")>>,
     edges |-> <<Edge("e1", "A", "B", EdgeData(<<>>)), Edge("e2", "A", "C", EdgeData(<<>>))>>],
    [nodes |-> <<Node("A"), Node("B"), Node("C")>>,
     edges |-> <<Edge("e1", "A", "C", EdgeData(<<>>)), Edge("e2", "B", "C", EdgeData(<<>>))>>],
    [nodes |-> <<Node("A"), Node("B")>>,
     edges |-> <<Edge("e1", "A", "B", EdgeData(<<>>)), Edge("e2", "B", "A", EdgeData(<<>>))>>],
    [nodes |-> <<Node("A")>>,
     edges |-> <<Edge("e1", "A", "A", EdgeData(<<>>))>>] }

\* The names and values the simulation panel can bind: the conditions of the
\* rules, and a name no rule uses any more.
SimNames == {"role", "constructor", "theme"}
SimValues == {Str("admin"), Str("guest")}

InitSim ==
  /\ \E g \in SimGraphs : nodes = g.nodes /\ edges = g.edges
  /\ state = EmptyContext
  /\ pc = "host"
  /\ FlowIdle
  /\ TraceIdle
  /\ HostIdle
  /\ rule = IdleRule
  /\ edge = IdleEdge
  /\ result = Undefined

NextSim ==
  \/ AddRuleToEdge
  \/ RemoveRule
  \/ ToggleSimulation
  \/ \E c \in SimNames, v \in SimValues : UpdateSimulationValue(c, v)
  \/ \E c \in SimNames : ClearSimulationValue(c)
  \/ ResetSimulation

SpecSim == InitSim /\ [][NextSim]_vars

\* ---------------------------------------------------------------------------
\* Properties of the simulation
\* ---------------------------------------------------------------------------

\* FeatureNodeComponent: isReachable of the node with the given id, from the
\* isSimulating and reachableNodes the flow context hands to it.
IsReachable(id, sim, reach) == ~sim \/ reach = {} \/ id \in reach

\* C22: while simulation is active a node is presented as reachable iff its
\* id is in the reachableNodes of evaluateFlow for the current nodes, edges
\* and context; with an empty reachableNodes no node is presented as
\* reachable.
C22_PresentedIffReachable ==
  isSimulating =>
    \A i \in DOMAIN nodes :
      IsReachable(nodes[i].id, isSimulating,
                  flowEvaluation(isSimulating, nodes, edges, state).reachableNodes)
        <=> nodes[i].id \in evaluateFlow(nodes, edges, state).reachableNodes

\* Result f2 opens nothing that f1 does not: its reachable nodes and its valid
\* edges are among those of f1.
Within(f2, f1) ==
  /\ f2.reachableNodes \subseteq f1.reachableNodes
  /\ \A id \in DOMAIN f2.validEdges :
       f2.validEdges[id] => (id \in DOMAIN f1.validEdges /\ f1.validEdges[id])

\* The nodes connected to a root by edges, whatever their rules.
RECURSIVE ForwardClosure(_)
ForwardClosure(S) ==
  LET step == S \cup {edges[i].target : i \in {j \in DOMAIN edges : edges[j].source \in S}}
  IN IF step = S THEN S ELSE ForwardClosure(step)

ConnectedToRoot == ForwardClosure(RootIds)

\* C25: binding a condition name that was unset never opens a path: the
\* result under the new context is within the result under the old one; and
\* under the empty context, as after resetSimulation, an edge is valid iff
\* its source is connected to a root.
C25_ConstrainingNeverOpens ==
  [][/\ (lastOp'.name = "updateSimulationValue" /\ DOMAIN state' # DOMAIN state)
          => Within(evaluateFlow(nodes, edges, state'), evaluateFlow(nodes, edges, state))
     /\ lastOp'.name = "resetSimulation"
          => \A i \in DOMAIN edges :
               evaluateFlow(nodes, edges, state').validEdges[edges[i].id]
                 <=> edges[i].source \in ConnectedToRoot]_vars

\* Between the two states only rule lists of the edges named by the operation
\* differ: nodes, context, the order, ids and endpoints of the edges, and
\* every other edge are the same.
OnlyNamedRulesChange ==
  /\ nodes' = nodes
  /\ state' = state
  /\ Len(edges') = Len(edges)
  /\ \A i \in DOMAIN edges :
       /\ edges'[i].id = edges[i].id
       /\ edges'[i].source = edges[i].source
       /\ edges'[i].target = edges[i].target
       /\ edges[i].id \notin lastOp'.ids => edges'[i] = edges[i]

\* C26: adding a rule to an edge adds no node to reachableNodes and turns no
\* edge valid; removing a rule removes no node from reachableNodes and turns
\* no edge invalid; both change only the rule list of the named edge, by one
\* rule.
C26_RulesOnlyRestrict ==
  [][/\ lastOp'.name = "addRuleToEdge" =>
          /\ Within(evaluateFlow(nodes', edges', state'), evaluateFlow(nodes, edges, state))
          /\ OnlyNamedRulesChange
          /\ \A i \in DOMAIN edges :
               edges[i].id \in lastOp'.ids =>
                 /\ Len(RulesOf(edges'[i])) = Len(RulesOf(edges[i])) + 1
                 /\ SubSeq(RulesOf(edges'[i]), 1, Len(RulesOf(edges[i]))) = RulesOf(edges[i])
     /\ lastOp'.name = "removeRule" =>
          /\ Within(evaluateFlow(nodes, edges, state), evaluateFlow(nodes', edges', state'))
          /\ OnlyNamedRulesChange
          /\ \A i \in DOMAIN edges :
               edges[i].id \in lastOp'.ids =>
                 /\ Len(RulesOf(edges'[i])) = Len(RulesOf(edges[i])) - 1
                 /\ \A j \in DOMAIN RulesOf(edges'[i]) :
                      \E k \in DOMAIN RulesOf(edges[i]) :
                        RulesOf(edges[i])[k] = RulesOf(edges'[i])[j]]_vars

\* A rule has just been added to an edge out of a reachable node, and under
\* the context it fails: the edge is invalid.
C26_Witness ==
  /\ lastOp.name = "addRuleToEdge"
  /\ \E i \in DOMAIN edges :
       /\ edges[i].id \in lastOp.ids
       /\ edges[i].source \in evaluateFlow(nodes, edges, state).reachableNodes
       /\ ~evaluateFlow(nodes, edges, state).validEdges[edges[i].id]
       /\ edges[i].target \notin evaluateFlow(nodes, edges, state).reachableNodes

\* The condition names that some rule of some edge uses.
ReferencedConditions(es) ==
  UNION {{RulesOf(es[i])[j].condition : j \in DOMAIN RulesOf(es[i])} : i \in DOMAIN es}

\* Two contexts agree on a name: both leave it unset, or both bind it to the
\* same value.
AgreeOn(c1, c2, name) ==
  /\ name \in DOMAIN c1 <=> name \in DOMAIN c2
  /\ name \in DOMAIN c1 => c1[name] = c2[name]

\* C27: a context that agrees with the current one on every condition name
\* some rule of the graph uses gives the same reachableNodes and validEdges;
\* bindings for other names, such as the ones left after a rule is removed,
\* have no effect.
C27_UnreferencedBindingsIgnored ==
  \A other \in ContextsOver(SimNames, SimValues) :
    (\A name \in ReferencedConditions(edges) : AgreeOn(state, other, name))
      => evaluateFlow(nodes, edges, other) = evaluateFlow(nodes, edges, state)

\* A rule has just been removed and the context still binds a name no rule
\* uses any more, while another rule of the graph blocks an edge.
C27_Witness ==
  /\ lastOp.name = "removeRule"
  /\ DOMAIN state \ ReferencedConditions(edges) # {}
  /\ ReferencedConditions(edges) # {}
  /\ \E i \in DOMAIN edges :
       /\ edges[i].source \in evaluateFlow(nodes, edges, state).reachableNodes
       /\ ~evaluateFlow(nodes, edges, state).validEdges[edges[i].id]

----------------------------------------------------------------------------
(* SimulationPanel: choosing one of the options of a discovered condition  *)

\* The strings whose characters Chars gives.
Strings == {"age", "role", "unknown", "admin", "9", "5", "10", "25", "30", "true", "false"}

\* The string value made of the characters cs (e.target.value).
StringValue(cs) == Str(CHOOSE s \in Strings : Chars(s) = cs)

\* Number(rawValue) for a string of decimal digits.
RECURSIVE NumberOfDigits(_)
NumberOfDigits(cs) ==
  IF cs = <<>> THEN 0
  ELSE 10 * NumberOfDigits(SubSeq(cs, 1, Len(cs) - 1)) + (CharRank(cs[Len(cs)]) - 1)

\* handleValueChange(condition, rawValue, type): the value handed to
\* onUpdateValue.
handleValueChange(rawValue, type) ==
  IF type = "boolean" THEN Bool(rawValue = <<"t", "r", "u", "e">>)
  ELSE IF type = "number" THEN Num(NumberOfDigits(rawValue))
  ELSE StringValue(rawValue)

\* The value the control of a condition hands to onUpdateValue when the user
\* picks the option opt: the true / false button of a boolean condition, the
\* <option value={String(opt)}> of an enum condition, the digits of opt typed
\* into the input of a number condition.
PanelValue(condition, opt) ==
  IF condition.type = "boolean" THEN Bool(opt.bool)
  ELSE handleValueChange(StringOf(opt), condition.type)

\* The user picks option j of the i-th discovered condition;
\* onUpdateValue is updateSimulationValue. rule records the rule
\* `condition is option` of the choice.
ChooseOption ==
  /\ pc = "discovered"
  /\ \E i \in DOMAIN result :
       \E j \in DOMAIN result[i].options :
         /\ state' = WithBinding(state, result[i].name,
                                 PanelValue(result[i], result[i].options[j]))
         /\ rule' = Rule(result[i].name, "is", result[i].options[j])
         /\ lastOp' = Op("updateSimulationValue", {result[i].name})
  /\ pc' = "chosen"
  /\ UNCHANGED <<nodes, edges, flowLocals, edge, result, traceVars,
                 selectedNodeId, selectedEdgeId, file>>

NextPanel == CallDiscoverConditions \/ ChooseOption

SpecPanel == InitDiscover /\ [][NextPanel]_vars

\* C28: after an option of a discovered condition is chosen in the panel, the
\* context binds the condition to a value strictly equal to the option, and
\* the rule `condition is option` passes.
C28_ChosenOptionStored ==
  pc = "chosen" =>
    /\ StrictEquals(Get(state, rule.condition), rule.value)
    /\ evaluateRule(rule, state)

====
